---- MODULE Spec2Model ----
(***************************************************************************)
(* redux-smart-action: SmartAction (src/src/SmartAction.js), the smart     *)
(* middleware (src/src/smartActionMiddleware.js) and the store enhancer    *)
(* applySmartMiddleware (src/src/applySmartMiddleware.js), driven by the   *)
(* PUSH/POP reducer and the action creators of the test suite              *)
(* (src/unnamed/part_001).                                                 *)
(*                                                                         *)
(* Everything is synchronous, so one call of store.dispatch or of a        *)
(* handle's exec is one step.  What a call does to the stores it can       *)
(* reach is computed by operators over a "world": the list of stores       *)
(* alive during the call (index 1 is the real store, the others are the    *)
(* branches created during the call), the array identities in use and      *)
(* the counters of the counting reducers.                                  *)
(***************************************************************************)
EXTENDS Integers, Sequences, FiniteSets, TLC

\* ------------------------------------------------------------------ bounds
MaxLen     == 3   \* longest state array a top-level call may leave behind
MaxTimes   == 2   \* largest count / cap argument of an action creator
MaxMulti   == 3   \* most values given to pushMutiple

Values == {1}      \* the value of a single push (pushMutiple also pushes 2: Args)
Slots  == {1}     \* the caller's variables that hold a handle (`action` in the tests)
Fuel   == MaxTimes + MaxLen + 2   \* loop iterations followed before a run counts as divergent

\* --------------------------------------------------------------- JS values
\* A state is a JS array: `ref` is its identity (what === compares), `val`
\* its elements.  Identity 0 is kept for "no array" (undefined).
NoState == [ref |-> 0, val |-> <<>>]

REPLACE == "@@smartAction/REPLACE"
INIT    == "@@redux/INIT"

Action(type, value) == [type |-> type, value |-> value, state |-> NoState]

\* The identity a newly allocated array gets: one that no live array has.
fresh(used) ==
  CHOOSE n \in 1..(Cardinality(used) + 1) :
    n \notin used /\ \A m \in 1..(n - 1) : m \in used

\* deep-equal on arrays of numbers: same length, equal elements.
equal(a, b) ==
  /\ Len(a.val) = Len(b.val)
  /\ \A i \in 1..Len(a.val) : a.val[i] = b.val[i]

\* ------------------------------------------------------ procedures (func)
\* A SmartAction is [func, branch, deepEqual]; func is a list of statements:
\*   dispatch : dispatch({type, value})
\*   exec     : dispatch(sub).exec()
\*   ifLen    : if (getState().length) { body }
\*   ifLt     : if (getState().length < n) { body }
\*   whileLt  : const initialLength = getState().length;
\*              while (getState().length < initialLength + n) { body }
\*   throw    : throw new Error()
Stmt(op, type, value, n, sub, body) ==
  [op |-> op, type |-> type, value |-> value, n |-> n, sub |-> sub, body |-> body]

D(type, value)   == Stmt("dispatch", type, value, 0, <<>>, <<>>)
X(sa)            == Stmt("exec", "", 0, 0, <<sa>>, <<>>)
IfLen(body)      == Stmt("ifLen", "", 0, 0, <<>>, body)
IfLt(n, body)    == Stmt("ifLt", "", 0, n, <<>>, body)
WhileLt(n, body) == Stmt("whileLt", "", 0, n, <<>>, body)
Throw            == Stmt("throw", "", 0, 0, <<>>, <<>>)

SmartAction(func, branch, deepEqual) ==
  [func |-> func, branch |-> branch, deepEqual |-> deepEqual]

\* The action creators of the test suite, with the two flags left open.
push(v, b, d)         == SmartAction(<<D("PUSH", v)>>, b, d)
pop(b, d)             == SmartAction(<<IfLen(<<D("POP", 0)>>)>>, b, d)
pushCap(v, cap, b, d) == SmartAction(<<IfLt(cap, <<X(push(v, b, TRUE))>>)>>, b, d)
pushMutiple(vs, b, d) ==
  SmartAction([i \in 1..Len(vs) |-> X(push(vs[i], b, TRUE))], b, d)
pushPop(v, b, d)      == SmartAction(<<D("PUSH", v), D("POP", v)>>, b, d)
pushTimes(v, n, b, d) ==
  SmartAction(<<WhileLt(n, <<X(push(v, TRUE, TRUE))>>)>>, b, d)
\* Two more procedures that the reducer makes interesting: an action type
\* the reducer does not know (the state array is returned as it is), and a
\* POP that is not guarded (an empty array is copied).
touch(b, d)           == SmartAction(<<D("OTHER", 0)>>, b, d)
popRaw(b, d)          == SmartAction(<<D("POP", 0)>>, b, d)
\* Two procedures that raise an error: one after a dispatch and a committed
\* sub-action, one inside a sub-action, with a dispatch to follow.
pushThrow(v, b, d)    ==
  SmartAction(<<D("PUSH", v), X(push(v, b, TRUE)), Throw>>, b, d)
throwInSub(v, b, d)   ==
  SmartAction(<<X(SmartAction(<<D("PUSH", v), Throw>>, b, TRUE)), D("PUSH", v)>>, b, d)

\* The argument lists given to pushMutiple: (), (1), (1, 2), (1, 2, 1), ...
Args(k) == [i \in 1..k |-> IF i % 2 = 1 THEN 1 ELSE 2]

SmartActions ==
  UNION { {push(v, b, d) : v \in Values}
          \cup {pop(b, d), touch(b, d), popRaw(b, d)}
          \cup {pushCap(1, cap, b, d) : cap \in 0..MaxTimes}
          \cup {pushMutiple(Args(k), b, d) : k \in 0..MaxMulti}
          \cup {pushPop(v, b, d) : v \in Values}
          \cup {pushTimes(1, n, b, d) : n \in 0..MaxTimes}
          \cup {pushThrow(1, b, d), throwInSub(1, b, d)}
        : <<b, d>> \in BOOLEAN \X BOOLEAN }

PlainActions ==
  {Action("PUSH", v) : v \in Values} \cup {Action("POP", 0), Action("OTHER", 0)}

\* ------------------------------------------------------------------ stores
\* A store is [state, r, calls]: r = 0 when the reducer under the REPLACE
\* wrapper is the application reducer, r = k > 0 when it is the counting
\* reducer of the k-th runDontBranch of this call; calls counts the
\* dispatches that reached the store during the current top-level call,
\* each of which calls every subscriber once.
Store(state, r) == [state |-> state, r |-> r, calls |-> 0]

\* passed counts the SmartActions that reached the last stage of a chain.
\* The other fields are kept for the properties only (no operation reads
\* them).  For store i, pre[i] is the elements it was created with and
\* exp[i] the elements it should hold by now: pre[i] with the plain actions
\* and the nested commits of the procedure running against it applied in
\* order.  stale: some getState() of a procedure returned something else
\* than exp; moved: some getState() returned something else than pre;
\* leak: a dispatch(sub).exec() of a procedure did not start the sub-action
\* from the procedure's store, or touched another store than that one.
\* err: an error has been raised and not caught (every frame it passes
\* returns at once); raised: an error has been raised during the call.
World(stores, used) ==
  [stores |-> stores, used |-> used, counts |-> <<>>, div |-> FALSE,
   err |-> FALSE, raised |-> FALSE,
   passed |-> 0,
   pre |-> [i \in 1..Len(stores) |-> stores[i].state.val],
   exp |-> [i \in 1..Len(stores) |-> stores[i].state.val],
   stale |-> FALSE, moved |-> FALSE, leak |-> FALSE]

getState(w, i) == w.stores[i].state

\* The application reducer of the test suite.
reducer(state, action, used) ==
  CASE action.type = "PUSH" ->
         [ref |-> fresh(used), val |-> Append(state.val, action.value)]
    [] action.type = "POP" ->
         [ref |-> fresh(used),
          val |-> IF Len(state.val) = 0 THEN <<>>
                  ELSE SubSeq(state.val, 1, Len(state.val) - 1)]
    [] OTHER -> state

\* The reducer runDontBranch hands to store.branch: count++, same state.
countingReducer(w, k) == [w EXCEPT !.counts[k] = @ + 1]

\* wrappedReducer without the REPLACE case: every action goes to r.
wrappedReducerNoReplace(w, i, action) ==
  IF w.stores[i].r = 0
  THEN LET next == reducer(getState(w, i), action, w.used)
       IN  [w EXCEPT !.stores[i].state = next, !.used = @ \cup {next.ref}]
  ELSE countingReducer(w, w.stores[i].r)

\* wrappedReducer answering REPLACE by a copy of the given state.
wrappedReducerCopies(w, i, action) ==
  IF action.type = REPLACE
  THEN [w EXCEPT !.stores[i].state = [ref |-> fresh(w.used), val |-> action.state.val],
                 !.used = @ \cup {fresh(w.used)}]
  ELSE IF w.stores[i].r = 0
       THEN LET next == reducer(getState(w, i), action, w.used)
            IN  [w EXCEPT !.stores[i].state = next, !.used = @ \cup {next.ref}]
       ELSE countingReducer(w, w.stores[i].r)

\* The reducer the enhancer gives to createStore.
wrappedReducer(w, i, action) ==
  IF action.type = REPLACE
  THEN [w EXCEPT !.stores[i].state = action.state]
  ELSE IF w.stores[i].r = 0
       THEN LET next == reducer(getState(w, i), action, w.used)
            IN  [w EXCEPT !.stores[i].state = next, !.used = @ \cup {next.ref}]
       ELSE countingReducer(w, w.stores[i].r)

\* redux's store.dispatch: reduce, then call every subscriber once.
storeDispatch(w, i, action) ==
  [wrappedReducer(w, i, action) EXCEPT !.stores[i].calls = @ + 1]

\* middlewareReducer making the store without the initial state: it starts
\* from the reducer's default, [].
middlewareReducerDefault(w, r, initialState) ==
  LET w1 == [w EXCEPT !.stores = Append(@, Store([ref |-> fresh(w.used), val |-> <<>>], r)),
                       !.used = @ \cup {fresh(w.used)},
                       !.pre = Append(@, initialState.val),
                       !.exp = Append(@, initialState.val)]
  IN  wrappedReducer(w1, Len(w1.stores), Action(INIT, 0))

\* redux's createStore, as called by middlewareReducer: the new store is
\* initialised by one INIT reduction, before anybody can subscribe.
middlewareReducer(w, r, initialState) ==
  LET w1 == [w EXCEPT !.stores = Append(@, Store(initialState, r)),
                       !.pre = Append(@, initialState.val),
                       !.exp = Append(@, initialState.val)]
  IN  wrappedReducer(w1, Len(w1.stores), Action(INIT, 0))

\* branch starting the new store from the real store's state.
branchOfRoot(w, i, customReducer) ==
  middlewareReducer(w, w.stores[i].r, getState(w, 1))

\* middlewareAPI.branch: a new store over the same reducer and the current
\* state.  The function takes no parameter: what a caller passes is dropped.
branch(w, i, customReducer) ==
  middlewareReducer(w, w.stores[i].r, getState(w, i))


\* replaceState dispatching the REPLACE action twice.
replaceStateTwice(w, i, state) ==
  storeDispatch(storeDispatch(w, i, [type |-> REPLACE, value |-> 0, state |-> state]),
                i, [type |-> REPLACE, value |-> 0, state |-> state])

\* middlewareAPI.replaceState: dispatch({type: REPLACE, state}) through the
\* store's own chain; the middleware hands a plain action on to store.dispatch.
replaceState(w, i, state) ==
  storeDispatch(w, i, [type |-> REPLACE, value |-> 0, state |-> state])

\* ----------------------------------------------------------------- handles
\* What the evaluation of an action saw, kept with the handle it made so
\* that properties can speak of it (no operation reads it): the action's
\* two flags; whether the branch's state after the procedure is the
\* identical array, and whether it has the same elements, as before the
\* procedure; the dispatches that reached the branch; the counting
\* reducer's count.
Obs(sa, prev, next, n, count) ==
  [branch |-> sa.branch, deepEqual |-> sa.deepEqual,
   same |-> prev.ref = next.ref, deep |-> prev.val = next.val,
   n |-> n, count |-> count]

NoObs == [branch |-> FALSE, deepEqual |-> FALSE, same |-> TRUE, deep |-> TRUE,
          n |-> 0, count |-> 0]

\* What dispatching a SmartAction returns.  kind tells which exec closure the
\* handle carries: "noop" is () => false, "replace" is runBranch's closure
\* over the branch (final is what branch.getState() returns: nothing
\* dispatches to the branch once the procedure has returned), "rerun" is
\* runDontBranch's closure over the action.  "unset" is undefined.
\* commits counts the calls of exec that changed the state of the store:
\* none, one, or two and more.
Handle(canExec, kind, final, sa, obs) ==
  [canExec |-> canExec, kind |-> kind, final |-> final, sa |-> sa,
   obs |-> obs, commits |-> 0]

NoHandle == Handle(FALSE, "unset", NoState, <<>>, NoObs)

\* What a dispatched value is: a SmartAction instance or a plain action.
\* A SmartAction has no type.
Smart(sa)     == [smart |-> TRUE, sa |-> <<sa>>, action |-> Action("", 0)]
Plain(action) == [smart |-> FALSE, sa |-> <<>>, action |-> action]

\* The last stage being the real store's dispatch in every chain.
nextToRoot(value, w, store) ==
  [storeDispatch(w, 1, value.action)
     EXCEPT !.passed = @ + IF value.smart THEN 1 ELSE 0]

\* The last stage of the chain the enhancer composes: store.dispatch.
next(value, w, store) ==
  [storeDispatch(w, store, value.action)
     EXCEPT !.passed = @ + IF value.smart THEN 1 ELSE 0]

RECURSIVE runFunc(_, _, _)
RECURSIVE loop(_, _, _, _, _)
RECURSIVE run(_, _, _)
RECURSIVE exec(_, _, _)

\* runCheckState without the identity test.
runCheckStateNoIdentity(sa, w, b) ==
  LET prevState == getState(w, b)
      w1        == runFunc(sa.func, w, b)
      nextState == getState(w1, b)
  IN  [w |-> w1,
       obs |-> Obs(sa, prevState, nextState, w1.stores[b].calls, 0),
       changed |-> IF sa.deepEqual THEN ~equal(prevState, getState(w1, b))
                   ELSE TRUE]

\* runCheckState without the deepEqual test.
runCheckStateNoDeep(sa, w, b) ==
  LET prevState == getState(w, b)
      w1        == runFunc(sa.func, w, b)
      nextState == getState(w1, b)
  IN  [w |-> w1,
       obs |-> Obs(sa, prevState, nextState, w1.stores[b].calls, 0),
       changed |-> prevState.ref # nextState.ref]

\* runCheckState comparing by structure whatever deepEqual is.
runCheckStateAlwaysDeep(sa, w, b) ==
  LET prevState == getState(w, b)
      w1        == runFunc(sa.func, w, b)
      nextState == getState(w1, b)
  IN  [w |-> w1,
       obs |-> Obs(sa, prevState, nextState, w1.stores[b].calls, 0),
       changed |-> IF prevState.ref = nextState.ref THEN FALSE
                   ELSE ~equal(prevState, getState(w1, b))]

\* runCheckState with the sense of deepEqual inverted.
runCheckStateSwapped(sa, w, b) ==
  LET prevState == getState(w, b)
      w1        == runFunc(sa.func, w, b)
      nextState == getState(w1, b)
  IN  [w |-> w1,
       obs |-> Obs(sa, prevState, nextState, w1.stores[b].calls, 0),
       changed |-> IF prevState.ref = nextState.ref THEN FALSE
                   ELSE IF sa.deepEqual THEN TRUE
                   ELSE ~equal(prevState, getState(w1, b))]

\* runCheckState catching what the procedure raises.
runCheckStateCatches(sa, w, b) ==
  LET prevState == getState(w, b)
      w1        == [runFunc(sa.func, w, b) EXCEPT !.err = FALSE]
      nextState == getState(w1, b)
  IN  [w |-> w1,
       obs |-> Obs(sa, prevState, nextState, w1.stores[b].calls, 0),
       changed |-> IF prevState.ref = nextState.ref THEN FALSE
                   ELSE IF sa.deepEqual THEN ~equal(prevState, getState(w1, b))
                   ELSE TRUE]

\* SmartAction.runCheckState: run the procedure, compare the state before
\* and after by identity and then, if deepEqual, by structure.
runCheckState(sa, w, b) ==
  LET prevState == getState(w, b)
      w1        == runFunc(sa.func, w, b)
      nextState == getState(w1, b)
  IN  [w |-> w1,
       obs |-> Obs(sa, prevState, nextState, w1.stores[b].calls, 0),
       changed |-> IF prevState.ref = nextState.ref THEN FALSE
                   ELSE IF sa.deepEqual THEN ~equal(prevState, getState(w1, b))
                   ELSE TRUE]

\* runBranch running the procedure against the store instead of a branch.
runBranchOnStore(sa, w, store) ==
  LET c == runCheckState(sa, w, store)
  IN  [w |-> c.w,
       h |-> IF c.changed
             THEN Handle(TRUE, "replace", getState(c.w, store), <<>>, c.obs)
             ELSE Handle(FALSE, "noop", NoState, <<>>, c.obs)]

\* runBranch keeping the branch with the instance: the first evaluation
\* makes it, the later ones work in it.
runBranchCached(sa, w, store) ==
  LET w0 == IF Len(w.stores) >= 2 THEN w ELSE branch(w, store, 0)
      b  == IF Len(w.stores) >= 2 THEN 2 ELSE Len(w0.stores)
      c  == runCheckState(sa, w0, b)
  IN  [w |-> c.w,
       h |-> IF c.changed
             THEN Handle(TRUE, "replace", getState(c.w, b), <<>>, c.obs)
             ELSE Handle(FALSE, "noop", NoState, <<>>, c.obs)]

\* SmartAction.runBranch
runBranch(sa, w, store) ==
  LET w0 == branch(w, store, 0)
      b  == Len(w0.stores)
      c  == runCheckState(sa, w0, b)
  IN  [w |-> c.w,
       h |-> IF c.changed
             THEN Handle(TRUE, "replace", getState(c.w, b), <<>>, c.obs)
             ELSE Handle(FALSE, "noop", NoState, <<>>, c.obs)]

\* SmartAction.runDontBranch: k is the closure of this call's counter.
runDontBranch(sa, w, store) ==
  LET k  == Len(w.counts) + 1
      w0 == branch([w EXCEPT !.counts = Append(@, 0)], store, k)
      b  == Len(w0.stores)
      w1 == runFunc(sa.func, w0, b)
      count == w1.counts[k]
      obs == Obs(sa, getState(w0, b), getState(w1, b), w1.stores[b].calls, count)
  IN  [w |-> w1,
       h |-> IF count > 1
             THEN Handle(TRUE, "rerun", NoState, <<sa>>, obs)
             ELSE Handle(FALSE, "noop", NoState, <<>>, obs)]

\* run taking the isolated-branch strategy whatever branch is.
runAlwaysBranch(sa, w, store) == runBranch(sa, w, store)

\* SmartAction.run
run(sa, w, store) ==
  IF sa.branch THEN runBranch(sa, w, store) ELSE runDontBranch(sa, w, store)

\* The method the middleware calls on a SmartAction.  The class has no
\* method of that name; the action's strategy is entered through run.
dispatchToStore(sa, w, store) == run(sa, w, store)

\* The middleware without its return statement: the SmartAction is
\* evaluated and then handed to next as well.
smartActionMiddlewareFallsThrough(value, w, store) ==
  IF value.smart
  THEN LET r == dispatchToStore(value.sa[1], w, store)
       IN  [w |-> next(value, r.w, store), h |-> r.h]
  ELSE [w |-> next(value, w, store), h |-> NoHandle]

\* The middleware handing a plain action to next twice.
smartActionMiddlewareTwice(value, w, store) ==
  IF value.smart
  THEN dispatchToStore(value.sa[1], w, store)
  ELSE [w |-> next(value, next(value, w, store), store), h |-> NoHandle]

\* createSmartActionMiddleware: a SmartAction is evaluated and answered by a
\* handle, without next being called; anything else goes to next, and the
\* call returns undefined.
smartActionMiddleware(value, w, store) ==
  IF value.smart
  THEN dispatchToStore(value.sa[1], w, store)
  ELSE [w |-> next(value, w, store), h |-> NoHandle]

\* exec replacing the store's state by the store's own state instead of
\* the branch's.
execOwnState(h, w, store) ==
  CASE h.kind = "replace" ->
         [w |-> replaceState(w, store, getState(w, store)), ret |-> TRUE]
    [] h.kind = "rerun" ->
         LET w0 == branch(w, store, 0)
             b  == Len(w0.stores)
             w1 == runFunc(h.sa[1].func, w0, b)
         IN  IF w1.err THEN [w |-> w1, ret |-> FALSE]
             ELSE [w |-> replaceState(w1, store, getState(w1, store)), ret |-> TRUE]
    [] OTHER -> [w |-> w, ret |-> FALSE]

\* exec without `return true`.
execNoReturn(h, w, store) ==
  CASE h.kind = "replace" ->
         [w |-> replaceState(w, store, h.final), ret |-> FALSE]
    [] h.kind = "rerun" ->
         LET w0 == branch(w, store, 0)
             b  == Len(w0.stores)
             w1 == runFunc(h.sa[1].func, w0, b)
         IN  IF w1.err THEN [w |-> w1, ret |-> FALSE]
             ELSE [w |-> replaceState(w1, store, getState(w1, b)), ret |-> FALSE]
    [] OTHER -> [w |-> w, ret |-> FALSE]

\* exec whose canExec = false closure replaces the state by itself.
execNotifies(h, w, store) ==
  CASE h.kind = "replace" ->
         [w |-> replaceState(w, store, h.final), ret |-> TRUE]
    [] h.kind = "rerun" ->
         LET w0 == branch(w, store, 0)
             b  == Len(w0.stores)
             w1 == runFunc(h.sa[1].func, w0, b)
         IN  IF w1.err THEN [w |-> w1, ret |-> FALSE]
             ELSE [w |-> replaceState(w1, store, getState(w1, b)), ret |-> TRUE]
    [] OTHER -> [w |-> replaceState(w, store, getState(w, store)), ret |-> FALSE]

\* exec whose branch closure returns true without replacing the state.
execDropsCommit(h, w, store) ==
  CASE h.kind = "replace" -> [w |-> w, ret |-> TRUE]
    [] h.kind = "rerun" ->
         LET w0 == branch(w, store, 0)
             b  == Len(w0.stores)
             w1 == runFunc(h.sa[1].func, w0, b)
         IN  IF w1.err THEN [w |-> w1, ret |-> FALSE]
             ELSE [w |-> replaceState(w1, store, getState(w1, b)), ret |-> TRUE]
    [] OTHER -> [w |-> w, ret |-> FALSE]

\* exec whose branch closure commits a copy of the branch's state.
execCopies(h, w, store) ==
  CASE h.kind = "replace" ->
         [w |-> [replaceState(w, store, [ref |-> fresh(w.used), val |-> h.final.val])
                   EXCEPT !.used = @ \cup {fresh(w.used)}],
          ret |-> TRUE]
    [] h.kind = "rerun" ->
         LET w0 == branch(w, store, 0)
             b  == Len(w0.stores)
             w1 == runFunc(h.sa[1].func, w0, b)
         IN  IF w1.err THEN [w |-> w1, ret |-> FALSE]
             ELSE [w |-> replaceState(w1, store, getState(w1, b)), ret |-> TRUE]
    [] OTHER -> [w |-> w, ret |-> FALSE]

\* exec guarded against committing again: a handle that has committed
\* answers false and leaves the store alone.
execOnce(h, w, store) ==
  CASE h.kind = "replace" /\ h.commits = 0 ->
         [w |-> replaceState(w, store, h.final), ret |-> TRUE]
    [] h.kind = "rerun" ->
         LET w0 == branch(w, store, 0)
             b  == Len(w0.stores)
             w1 == runFunc(h.sa[1].func, w0, b)
         IN  IF w1.err THEN [w |-> w1, ret |-> FALSE]
             ELSE [w |-> replaceState(w1, store, getState(w1, b)), ret |-> TRUE]
    [] OTHER -> [w |-> w, ret |-> FALSE]

\* handle.exec(), for a handle made by a dispatch on `store`.  An error
\* raised by the procedure run again leaves the closure before it commits.
exec(h, w, store) ==
  CASE h.kind = "replace" ->
         [w |-> replaceState(w, store, h.final), ret |-> TRUE]
    [] h.kind = "rerun" ->
         LET w0 == branch(w, store, 0)
             b  == Len(w0.stores)
             w1 == runFunc(h.sa[1].func, w0, b)
         IN  IF w1.err THEN [w |-> w1, ret |-> FALSE]
             ELSE [w |-> replaceState(w1, store, getState(w1, b)), ret |-> TRUE]
    [] OTHER -> [w |-> w, ret |-> FALSE]

\* A getState() of the procedure running against store b, seen by the
\* properties.
observe(w, b) ==
  [w EXCEPT !.stale = @ \/ getState(w, b).val # w.exp[b],
            !.moved = @ \/ getState(w, b).val # w.pre[b]]

\* A dispatch(sub).exec() of the procedure running against store b, seen by
\* the properties: w is the world before it, r the dispatch's answer and e
\* the exec's.  The store the sub-action worked in is the first one made
\* after w (the first one made by exec for a handle that runs again); what
\* it should hold by its end is what store b should hold after a commit.
observeExec(w, b, r, e) ==
  LET s == IF r.h.kind = "rerun" THEN Len(r.w.stores) + 1 ELSE Len(w.stores) + 1
  IN  [e.w EXCEPT
         !.exp[b] = IF e.ret /\ s <= Len(e.w.exp) THEN e.w.exp[s] ELSE @,
         !.leak = \/ @
                  \/ Len(r.w.pre) <= Len(w.stores)
                  \/ r.w.pre[Len(w.stores) + 1] # getState(w, b).val
                  \/ \E j \in 1..Len(w.stores) :
                        j # b /\ e.w.stores[j] # w.stores[j]]

\* One statement of a procedure whose dispatch and getState are those of
\* store b.
runStmt(st, w, b) ==
  CASE st.op = "dispatch" ->
         [smartActionMiddleware(Plain(Action(st.type, st.value)), w, b).w
            EXCEPT !.exp[b] = reducer([ref |-> 0, val |-> @],
                                      Action(st.type, st.value), {0}).val]
    [] st.op = "exec" ->
         LET r == smartActionMiddleware(Smart(st.sub[1]), w, b)
         IN  IF r.w.err THEN r.w
             ELSE observeExec(w, b, r, exec(r.h, r.w, b))
    [] st.op = "ifLen" ->
         IF Len(getState(w, b).val) # 0
         THEN runFunc(st.body, observe(w, b), b) ELSE observe(w, b)
    [] st.op = "ifLt" ->
         IF Len(getState(w, b).val) < st.n
         THEN runFunc(st.body, observe(w, b), b) ELSE observe(w, b)
    [] st.op = "whileLt" ->
         loop(st, observe(w, b), b, Len(getState(w, b).val), Fuel)
    [] st.op = "throw" -> [w EXCEPT !.err = TRUE, !.raised = TRUE]

\* The while statement as an if: the body runs at most once.
loopIf(st, w, b, initialLength, fuel) ==
  IF w.div \/ w.err THEN w
  ELSE IF ~(Len(getState(w, b).val) < initialLength + st.n) THEN observe(w, b)
  ELSE runFunc(st.body, observe(w, b), b)

\* The while statement.  A loop still running after Fuel iterations is
\* taken never to end (div).
loop(st, w, b, initialLength, fuel) ==
  IF w.div \/ w.err THEN w
  ELSE IF ~(Len(getState(w, b).val) < initialLength + st.n) THEN observe(w, b)
  ELSE IF fuel = 0 THEN [w EXCEPT !.div = TRUE]
  ELSE loop(st, runFunc(st.body, observe(w, b), b), b, initialLength, fuel - 1)

\* this.func(dispatch, getState): the statements in order, up to the end,
\* to a loop that never ends or to an error raised.
runFunc(func, w, b) ==
  IF Len(func) = 0 \/ w.div \/ w.err THEN w
  ELSE runFunc(Tail(func), runStmt(Head(func), w, b), b)

\* ------------------------------------------------------------------- state
VARIABLES
  store,     \* the real store: [state, r, calls]; calls is the number of
             \* times the last call has called each subscriber
  handles,   \* the caller's variables: Slots -> handle
  last       \* the last call and what it returned

vars == <<store, handles, last>>

\* op, h: the call and the variable it used ("diverged": a call that never
\* returns; "threw": a dispatch or an exec that raised an error to its
\* caller); raised: an error was raised during the call; ret: what it returned (for a dispatch, the handle's canExec);
\* kept: the call left the real store's state the array it was; deepKept:
\* it left it with the elements it had; passed: the SmartActions the call
\* let through to the last stage of a chain; subs: for a dispatch of a
\* composition, the plain actions its sub-actions dispatch; stale, moved,
\* leak: what the call's world saw; branch, loop, times: for a dispatch of
\* a SmartAction, its strategy, whether its procedure is the
\* getState-driven loop, and the loop's count; asBase: for a dispatch of a
\* plain action, the store was left as redux's own store would be; undef:
\* the call returned undefined.
Last(op, h, ret, before, w, subs) ==
  [op |-> op, h |-> h, ret |-> ret,
   kept |-> getState(w, 1) = before,
   deepKept |-> getState(w, 1).val = before.val,
   passed |-> w.passed, subs |-> subs,
   stale |-> w.stale, moved |-> w.moved, leak |-> w.leak,
   branch |-> FALSE, loop |-> FALSE, times |-> 0, asBase |-> TRUE,
   undef |-> FALSE, raised |-> w.raised]

\* A procedure that is the getState-driven loop of pushTimes.
IsLoop(sa) == Len(sa.func) = 1 /\ sa.func[1].op = "whileLt"

\* What is kept of a dispatched SmartAction.
LastOf(sa, l) ==
  [l EXCEPT !.branch = sa.branch, !.loop = IsLoop(sa),
            !.times = IF IsLoop(sa) THEN sa.func[1].n ELSE 0]

\* createStore(reducer)'s dispatch, without the enhancer: the state is
\* reduced once and every subscriber is called once.
baseDispatch(state, action, used) ==
  [state |-> reducer(state, action, used), calls |-> 1]

\* A composition is a procedure that is a list of dispatch(sub).exec(),
\* each sub of the action's own strategy and dispatching one plain action.
IsComposition(sa) ==
  /\ Len(sa.func) > 0
  /\ \A i \in 1..Len(sa.func) :
       /\ sa.func[i].op = "exec"
       /\ sa.func[i].sub[1].branch = sa.branch
       /\ Len(sa.func[i].sub[1].func) = 1
       /\ sa.func[i].sub[1].func[1].op = "dispatch"

SubActions(sa) ==
  IF IsComposition(sa)
  THEN [i \in 1..Len(sa.func) |->
          Action(sa.func[i].sub[1].func[1].type, sa.func[i].sub[1].func[1].value)]
  ELSE <<>>

\* Array identities are only ever compared, so the arrays still reachable
\* after a call are renamed: the store's state is array 1, and a final
\* state held by a handle is array 1 if it is the store's state, array 2
\* otherwise.
renameState(state, storeState) ==
  IF state.ref = 0 THEN state
  ELSE [state EXCEPT !.ref = IF state.ref = storeState.ref THEN 1 ELSE 2]

renameHandle(h, storeState) ==
  [h EXCEPT !.final = renameState(@, storeState)]

\* Array identities that are still reachable: the store's state and the
\* final states held by handles.
live == {store.state.ref} \cup {handles[h].final.ref : h \in Slots}

\* The world a top-level call starts in: the real store, its subscriber
\* not yet called by this call.
TheWorld == World(<<[store EXCEPT !.calls = 0]>>, live \cup {0})

\* createSmartStore(): the reducer's default state [], no dispatch yet.
Init ==
  /\ store = Store([ref |-> 1, val |-> <<>>], 0)
  /\ handles = [h \in Slots |-> NoHandle]
  /\ last = Last("init", 1, FALSE, store.state, World(<<store>>, {}), <<>>)

InBounds(w) == Len(getState(w, 1).val) <= MaxLen

\* The program after a call that never returns: nothing is assigned, and
\* nothing runs any more.
Diverged(l) ==
  /\ store' = store
  /\ handles' = handles
  /\ last' = [l EXCEPT !.op = "diverged"]

\* The program after a call that raised an error, which the caller
\* catches: the call returned nothing, so no variable is assigned.
Threw(h, before, w) ==
  /\ InBounds(w)
  /\ store' = [w.stores[1] EXCEPT !.state.ref = 1]
  /\ handles' = [k \in Slots |-> renameHandle(handles[k], getState(w, 1))]
  /\ last' = Last("threw", h, FALSE, before, w, <<>>)

\* handles[h] = store.dispatch(sa)
Dispatch(sa, h) ==
  /\ last.op # "diverged"
  /\ \E r \in {smartActionMiddleware(Smart(sa), TheWorld, 1)} :
      \E l \in {LastOf(sa, Last("dispatch", h, r.h.canExec, store.state, r.w,
                              SubActions(sa)))} :
        IF r.w.div THEN Diverged(l)
        ELSE IF r.w.err THEN Threw(h, store.state, r.w)
        ELSE /\ InBounds(r.w)
             /\ Len(r.h.final.val) <= MaxLen
             /\ store' = [r.w.stores[1] EXCEPT !.state.ref = 1]
             /\ handles' = [handles EXCEPT
                              ![h] = renameHandle(r.h, getState(r.w, 1))]
             /\ last' = l

\* handles[h].exec()
Exec(h) ==
  /\ last.op # "diverged"
  /\ handles[h].kind # "unset"
  /\ \E r \in {exec(handles[h], TheWorld, 1)} :
      IF r.w.div THEN Diverged(Last("exec", h, r.ret, store.state, r.w, <<>>))
      ELSE IF r.w.err THEN Threw(h, store.state, r.w)
      ELSE /\ InBounds(r.w)
           /\ store' = [r.w.stores[1] EXCEPT !.state.ref = 1]
           /\ handles' = [handles EXCEPT
                ![h] = [renameHandle(@, getState(r.w, 1)) EXCEPT
                          !.commits = IF getState(r.w, 1) = store.state THEN @
                                      ELSE IF @ = 0 THEN 1 ELSE 2]]
           /\ last' = Last("exec", h, r.ret, store.state, r.w, <<>>)

\* store.dispatch(action) for a plain action
DispatchPlain(action) ==
  /\ last.op # "diverged"
  /\ \E r \in {smartActionMiddleware(Plain(action), TheWorld, 1)} :
      /\ InBounds(r.w)
      /\ store' = [r.w.stores[1] EXCEPT !.state.ref = 1]
      /\ handles' = [h \in Slots |-> renameHandle(handles[h], getState(r.w, 1))]
      /\ last' = [Last("plain", 1, FALSE, store.state, r.w, <<action>>)
                    EXCEPT !.undef = (r.h.kind = "unset"),
                           !.asBase =
                      LET base == baseDispatch(store.state, action, live \cup {0})
                      IN  /\ getState(r.w, 1).val = base.state.val
                          /\ (getState(r.w, 1) = store.state)
                               = (base.state = store.state)
                          /\ r.w.stores[1].calls = base.calls]

Next ==
  \/ \E sa \in SmartActions, h \in Slots : Dispatch(sa, h)
  \/ \E h \in Slots : Exec(h)
  \/ \E action \in PlainActions : DispatchPlain(action)

Spec == Init /\ [][Next]_vars

TypeOK ==
  /\ store.r = 0
  /\ store.calls \in 0..1
  /\ Len(store.state.val) <= MaxLen
  /\ \A h \in Slots : handles[h].kind \in {"unset", "noop", "replace", "rerun"}

\* ------------------------------------------------------------------ claims
\* The handle the last call made or used.
TheHandle == handles[last.h]

\* The evaluation that made handle h left a state that differs from the one
\* it started with, under the action's equality mode.
Differs(h) == ~h.obs.same /\ (h.obs.deepEqual => ~h.obs.deep)

\* C1: under branch = true, a procedure that leaves the branch in a state
\* differing (under the action's equality mode) from the state before gets a
\* handle with canExec = true; exec of such a handle returns true, makes the
\* state computed in the branch the real store's state and calls the
\* subscriber exactly once, whatever the number of dispatches the procedure
\* made; the first exec finds the store with another state.
C1_BranchChangeCommitsOnce ==
  \A h \in Slots :
    (handles[h].kind # "unset" /\ handles[h].obs.branch /\ Differs(handles[h]))
      => /\ handles[h].canExec
         /\ handles[h].kind = "replace"
         /\ (last.op = "exec" /\ last.h = h)
              => /\ last.ret = TRUE
                 /\ store.state = handles[h].final
                 /\ store.calls = 1
                 /\ (handles[h].commits = 0 => last.kept)

\* Witness of C1: the handle of a changing procedure has been executed for
\* the first time, and the real store's state is a new array of the three
\* elements the procedure pushed.
C1_Witness ==
  /\ last.op = "exec" /\ TheHandle.commits = 1 /\ ~last.kept
  /\ TheHandle.obs.branch /\ Differs(TheHandle)
  /\ store.state.val = <<1, 2, 1>>

\* C2: a dispatch of a SmartAction, of either strategy, leaves the real
\* store's state and the subscriber's call count as they were, whatever the
\* procedure dispatched and executed.
C2_DispatchAloneChangesNothing ==
  last.op = "dispatch" => last.kept /\ store.calls = 0

\* Witness of C2: a procedure that executed nested actions has been
\* evaluated and found executable, on a store that already holds a value.
C2_Witness ==
  /\ last.op = "dispatch" /\ TheHandle.canExec /\ TheHandle.obs.n >= 2
  /\ Len(store.state.val) = 1

\* C3: a procedure that dispatches nothing gets a handle with
\* canExec = false, under either strategy; exec of such a handle returns
\* false, leaves the real store's state as it is and calls no subscriber.
C3_NoDispatchNoExec ==
  \A h \in Slots :
    (handles[h].kind # "unset" /\ handles[h].obs.n = 0)
      => /\ ~handles[h].canExec
         /\ handles[h].kind = "noop"
         /\ (last.op = "exec" /\ last.h = h)
              => last.ret = FALSE /\ last.kept /\ store.calls = 0

\* Witness of C3: the handle of a branch = false procedure that dispatched
\* nothing has been executed.
C3_Witness ==
  last.op = "exec" /\ TheHandle.obs.n = 0 /\ ~TheHandle.obs.branch

\* The elements left by reducing the actions one after the other.
RECURSIVE Sequential(_, _)
Sequential(val, actions) ==
  IF Len(actions) = 0 THEN val
  ELSE Sequential(reducer([ref |-> 1, val |-> val], Head(actions), {0, 1}).val,
                  Tail(actions))

\* C4: under branch = true, the handle of an action whose procedure does
\* dispatch(sub).exec() for N sub-actions holds the state that reducing the
\* sub-actions' actions in order makes of the state before the dispatch;
\* exec of a handle makes the state it holds the real store's, returns true
\* and calls the subscriber exactly once.
C4_Composition ==
  /\ (last.op = "dispatch" /\ TheHandle.obs.branch /\ Len(last.subs) > 0)
       => /\ TheHandle.canExec
          /\ TheHandle.kind = "replace"
          /\ TheHandle.obs.n = Len(last.subs)
          /\ TheHandle.final.val = Sequential(store.state.val, last.subs)
  /\ (last.op = "exec" /\ TheHandle.kind = "replace")
       => /\ store.state = TheHandle.final
          /\ store.calls = 1
          /\ last.ret = TRUE

\* Witness of C4: the handle of pushMutiple(1, 2, 1), dispatched on the
\* empty store, has been executed.
C4_Witness ==
  /\ last.op = "exec" /\ TheHandle.commits = 1 /\ TheHandle.obs.n = 3
  /\ store.state.val = <<1, 2, 1>> /\ store.calls = 1

\* C5: under branch = true with deepEqual = true, a procedure that leaves
\* a state with the elements of the state before gets a handle with
\* canExec = false, whose exec returns false and calls no subscriber.
C5_DeepEqualCancels ==
  \A h \in Slots :
    (/\ handles[h].kind # "unset"
     /\ handles[h].obs.branch /\ handles[h].obs.deepEqual /\ handles[h].obs.deep)
      => /\ ~handles[h].canExec
         /\ (last.op = "exec" /\ last.h = h)
              => last.ret = FALSE /\ store.calls = 0 /\ last.kept

\* Witness of C5: the handle of a procedure that pushed and popped, leaving
\* another array with the same elements, has been executed.
C5_Witness ==
  /\ last.op = "exec"
  /\ TheHandle.obs.branch /\ TheHandle.obs.deepEqual
  /\ TheHandle.obs.deep /\ ~TheHandle.obs.same /\ TheHandle.obs.n = 2

\* C6: under branch = true with deepEqual = false, a procedure that leaves
\* another array with the elements of the state before gets a handle with
\* canExec = true; its exec returns true and calls the subscriber exactly
\* once.
C6_IdentityOnlyCommits ==
  \A h \in Slots :
    (/\ handles[h].kind # "unset"
     /\ handles[h].obs.branch /\ ~handles[h].obs.deepEqual
     /\ ~handles[h].obs.same /\ handles[h].obs.deep)
      => /\ handles[h].canExec
         /\ (last.op = "exec" /\ last.h = h)
              => last.ret = TRUE /\ store.calls = 1

\* Witness of C6: such a handle has been executed: the store's state is
\* another array with the elements it had.
C6_Witness ==
  /\ last.op = "exec" /\ last.ret = TRUE
  /\ TheHandle.obs.branch /\ ~TheHandle.obs.deepEqual
  /\ ~TheHandle.obs.same /\ TheHandle.obs.deep
  /\ ~last.kept /\ last.deepKept /\ store.calls = 1

\* C7: dispatching a SmartAction returns a handle, canExec a boolean and
\* exec a function, and no SmartAction, the dispatched one or one
\* dispatched by its procedure, reaches the last stage of a chain.
C7_SmartActionAnsweredByHandle ==
  last.op = "dispatch"
    => /\ TheHandle.kind \in {"noop", "replace", "rerun"}
       /\ TheHandle.canExec \in BOOLEAN
       /\ last.ret = TheHandle.canExec
       /\ last.passed = 0

\* Witness of C7: an action whose procedure dispatched three SmartActions
\* has been dispatched.
C7_Witness ==
  last.op = "dispatch" /\ TheHandle.obs.n = 3 /\ last.passed = 0

\* C8: every call of a handle's exec returns the handle's canExec.
C8_ExecReturnsCanExec ==
  last.op = "exec" => last.ret = TheHandle.canExec

\* Witness of C8: an exec has returned true.
C8_Witness ==
  last.op = "exec" /\ last.ret = TRUE /\ TheHandle.canExec /\ TheHandle.obs.n = 1

\* C9: exec of a handle with canExec = false returns false and leaves the
\* real store's state and the subscriber's call count as they were, each
\* time it is called.
C9_ExecOfCannotIsNoop ==
  (last.op = "exec" /\ ~TheHandle.canExec)
    => last.ret = FALSE /\ last.kept /\ store.calls = 0

\* Witness of C9: exec of a canExec = false handle has been called on a
\* store that holds two values.
C9_Witness ==
  last.op = "exec" /\ ~TheHandle.canExec /\ Len(store.state.val) = 2

\* C10 as stated: the calls of one handle's exec change the real store's
\* state at most once, and a dispatch or exec changes it only in an exec of
\* a handle with canExec = true.
C10_Original ==
  /\ \A h \in Slots : handles[h].commits <= 1
  /\ (last.op \in {"dispatch", "exec"} /\ ~last.kept)
       => last.op = "exec" /\ TheHandle.canExec

\* C10 as amended: a dispatch of a SmartAction leaves the real store's
\* state as it is; a call of exec changes it at most once, by one dispatch
\* to the real store, and only if the handle's canExec is true.
C10_ChangeOnlyByExec ==
  /\ last.op = "dispatch" => last.kept /\ store.calls = 0
  /\ last.op = "exec" => store.calls <= 1
  /\ (last.op = "exec" /\ ~last.kept) => TheHandle.canExec /\ store.calls = 1

\* Witness of C10: a handle's exec has changed the store's state for the
\* second time.
C10_Witness ==
  last.op = "exec" /\ ~last.kept /\ TheHandle.commits = 2

\* C11: under branch = true, every getState() of the procedure (and of the
\* procedures of the actions it dispatches) returns the elements the store
\* had when the action was dispatched, with the procedure's own earlier
\* plain actions and nested dispatch(sub).exec() commits applied in order.
C11_BranchSeesOwnDispatches ==
  (last.op \in {"dispatch", "diverged"} /\ last.branch) => ~last.stale

\* Witness of C11: a loop procedure under branch = true has read the state
\* after each of its two nested commits, on a store that held a value.
C11_Witness ==
  /\ last.op = "dispatch" /\ last.branch /\ last.loop /\ last.times = 2
  /\ TheHandle.obs.n = 2 /\ ~last.stale
  /\ Len(store.state.val) = 1 /\ Len(TheHandle.final.val) = 3

\* C12 as stated: under branch = false a handle has canExec = true exactly
\* when the procedure's probe run dispatched at least one action (the count
\* is above the one of the initialization), so that a procedure that pushes
\* gets canExec = true on any state.
C12_Original ==
  \A h \in Slots :
    (handles[h].kind # "unset" /\ ~handles[h].obs.branch)
      => /\ handles[h].canExec = (handles[h].obs.count > 1)
         /\ handles[h].canExec = (handles[h].obs.n >= 1)

C15_Original ==
  (last.op \in {"dispatch", "diverged"} /\ ~last.branch) => ~last.moved

\* What the caller can see of dispatching sa and calling exec on the
\* handle: whether the dispatch returns, canExec, what exec returns, the
\* state it leaves, whether that is the array the store had, and the
\* subscriber's calls.
Seen(sa) ==
  { <<r.w.div, r.w.err, r.h.canExec, e.ret, getState(e.w, 1).val,
      getState(e.w, 1) = store.state, e.w.stores[1].calls>> :
    <<r, e>> \in UNION { {<<d, x>> : x \in {exec(d.h, d.w, 1)}} :
                         d \in {smartActionMiddleware(Smart(sa), TheWorld, 1)} } }

C17_BranchLoopTerminates ==
  /\ (last.op \in {"dispatch", "diverged"} /\ last.branch /\ last.loop)
       => /\ last.op = "dispatch"
          /\ TheHandle.canExec = (last.times > 0)
          /\ TheHandle.obs.n = last.times
          /\ TheHandle.canExec
               => Len(TheHandle.final.val) = Len(store.state.val) + last.times
  /\ (last.op = "exec" /\ TheHandle.kind = "replace")
       => last.ret = TRUE /\ store.state = TheHandle.final

\* Witness of C17: the handle of pushTimes(1, 2), dispatched on the empty
\* store, has been executed.
C17_Witness ==
  /\ last.op = "exec" /\ last.ret = TRUE /\ ~last.kept /\ ~last.deepKept
  /\ TheHandle.obs.branch /\ TheHandle.obs.n = 2
  /\ store.state.val = <<1, 1>>

\* C18 as stated: under branch = false the dispatch of the getState-driven
\* loop pushTimes(v, n), n > 0, never returns a handle.
C18_Original ==
  ~(last.op = "dispatch" /\ ~last.branch /\ last.loop /\ last.times > 0)

\* C19: a dispatched value that is not a SmartAction reaches the last stage
\* once and as it is: the real store is left with the state redux's own
\* store would have, reducer(state, action), and the subscriber is called
\* once; no handle is returned.
C19_PlainPassesThrough ==
  last.op = "plain"
    => /\ last.asBase
       /\ store.calls = 1
       /\ last.passed = 0
       /\ last.subs[1].type = "PUSH"
            => /\ ~last.kept
               /\ store.state.val[Len(store.state.val)] = last.subs[1].value
       /\ last.subs[1].type = "OTHER" => last.kept

\* Witness of C19: PUSH 1 has been dispatched to the store that held 1, 2.
C19_Witness ==
  /\ last.op = "plain" /\ last.subs = <<Action("PUSH", 1)>>
  /\ store.state.val = <<1, 2, 1>> /\ store.calls = 1 /\ ~last.kept

\* C20: while a branch = true action is evaluated, each nested
\* dispatch(sub).exec() starts the sub-action from the current state of the
\* store the procedure runs against and changes that store only; the real
\* store's state and the subscriber's call count are as they were when the
\* dispatch returns.
C20_NestedIsolation ==
  /\ (last.op \in {"dispatch", "diverged"} /\ last.branch)
       => ~last.leak /\ last.kept
  /\ (last.op = "dispatch" /\ last.branch) => store.calls = 0

\* Witness of C20: an action with two nested commits has been evaluated
\* on a store that holds a value, which it still holds.
C20_Witness ==
  /\ last.op = "dispatch" /\ last.branch /\ Len(last.subs) = 2
  /\ TheHandle.canExec /\ TheHandle.final.val = <<1, 1, 2>>
  /\ store.state.val = <<1>> /\ last.kept /\ store.calls = 0

\* States handed to replaceState: arrays the store may or may not hold.
SomeStates ==
  {[ref |-> k, val |-> v] : k \in 1..3, v \in {<<>>, <<2>>, <<1, 2>>}}

\* C21: in every state of the store, replaceState(s) leaves the store with
\* exactly s (the array given) after one dispatch, without the application
\* reducer making anything; an action of another type than REPLACE leaves
\* the store with the application reducer's result.
C21_ReplaceState ==
  /\ \A s \in SomeStates \cup {TheHandle.final} :
       \A w \in {replaceState(TheWorld, 1, s)} :
         /\ getState(w, 1) = s
         /\ w.stores[1].calls = 1
         /\ w.used = TheWorld.used
  /\ \A action \in PlainActions :
       getState(wrappedReducer(TheWorld, 1, action), 1)
         = reducer(store.state, action, TheWorld.used)
  /\ (last.op = "exec" /\ TheHandle.kind = "replace")
       => store.state = TheHandle.final /\ store.calls = 1

\* Witness of C21: an exec has replaced the state of the store, which held
\* two values, by the one value its handle held.
C21_Witness ==
  /\ last.op = "exec" /\ TheHandle.kind = "replace" /\ ~last.deepKept
  /\ store.state = TheHandle.final /\ store.state.val = <<1>>
  /\ store.calls = 1 /\ TheHandle.commits = 2

\* C22: in every state of the real store, the store that branch() returns
\* has, before any dispatch to it, the state (the same array) of the store
\* it was taken from; so has a branch taken from a branch that an action
\* has been dispatched to.
C22_BranchStartsFromState ==
  \A w1 \in {branch(TheWorld, 1, 0)} :
    /\ Len(w1.stores) = 2
    /\ getState(w1, 2) = store.state
    /\ \A action \in PlainActions :
         \A w2 \in {branch(storeDispatch(w1, 2, action), 2, 0)} :
           /\ Len(w2.stores) = 3
           /\ getState(w2, 3) = getState(w2, 2)
           /\ getState(w2, 2) = reducer(store.state, action, TheWorld.used)

\* Witness of C22: an action whose procedure dispatches a sub-action (a
\* branch of the store, and a branch of that branch) has been evaluated on
\* a store that holds two values.
C22_Witness ==
  /\ last.op = "dispatch" /\ last.branch /\ last.subs = <<Action("PUSH", 1)>>
  /\ store.state.val = <<1, 2>> /\ TheHandle.final.val = <<1, 2, 1>>

\* C23: in every state of the real store, branch() leaves the real store
\* as it is (state and subscriber calls), and so does any dispatch,
\* replaceState and dispatch again on the branch; a dispatch on the real
\* store after branch() leaves the branch as it is.  A dispatch of a
\* SmartAction, whose whole evaluation works on branches, leaves the real
\* store's state the array it was and calls no subscriber.
C23_BranchIsolation ==
  /\ \A w1 \in {branch(TheWorld, 1, 0)} :
       /\ w1.stores[1] = TheWorld.stores[1]
       /\ \A a1 \in PlainActions, a2 \in PlainActions, s \in SomeStates :
            \A w2 \in {smartActionMiddleware(Plain(a1), w1, 2).w} :
              \A w3 \in {smartActionMiddleware(Plain(a2), replaceState(w2, 2, s), 2).w} :
                /\ w2.stores[1] = TheWorld.stores[1]
                /\ w3.stores[1] = TheWorld.stores[1]
                /\ getState(w2, 2).val = Sequential(store.state.val, <<a1>>)
                /\ getState(w3, 2).val = Sequential(s.val, <<a2>>)
       /\ \A action \in PlainActions :
            \A w2 \in {smartActionMiddleware(Plain(action), w1, 1).w} :
              /\ w2.stores[2] = w1.stores[2]
              /\ getState(w2, 1).val = Sequential(store.state.val, <<action>>)
  /\ last.op = "dispatch" => last.kept /\ store.calls = 0 /\ ~last.leak

\* Witness of C23: a handle holds the final state [] of a branch in which
\* the one element of the store was popped; the real store, unchanged by
\* that, has since been pushed to, and the handle's state is still [].
C23_Witness ==
  /\ last.op = "plain" /\ last.subs = <<Action("PUSH", 1)>>
  /\ TheHandle.kind = "replace" /\ TheHandle.obs.n = 1
  /\ TheHandle.final.val = <<>> /\ store.state.val = <<1, 1>>

\* C24: every handle made by the isolated-branch strategy has canExec =
\* true exactly when the branch's state after the procedure is not the
\* array it was before and (deepEqual is false or the two arrays differ in
\* their elements); and its exec is the committing closure exactly then.
C24_ChangeDetection ==
  \A h \in Slots :
    (handles[h].kind # "unset" /\ handles[h].obs.branch) =>
      /\ handles[h].canExec =
           (/\ ~handles[h].obs.same
            /\ (~handles[h].obs.deepEqual \/ ~handles[h].obs.deep))
      /\ handles[h].obs.same => ~handles[h].canExec
      /\ (handles[h].kind = "replace") = handles[h].canExec

\* Witness of C24: an action with deepEqual = false whose one dispatch got
\* back the identical array from the reducer was answered canExec = false.
C24_Witness ==
  /\ last.op = "dispatch" /\ last.branch
  /\ ~TheHandle.obs.deepEqual /\ TheHandle.obs.same /\ TheHandle.obs.n = 1
  /\ ~TheHandle.canExec /\ store.state.val = <<1>>

\* C25: an exec of a handle of the isolated-branch strategy with canExec =
\* true that follows an exec of that handle, with no other call in
\* between, returns true and leaves the real store's state what the first
\* exec made it: the identical array, the branch's final state.
C25_RepeatedExecIdempotent ==
  [][(/\ last.op = "exec" /\ last'.op = "exec"
      /\ handles[last.h].kind = "replace" /\ last'.h = last.h)
       => /\ last'.ret /\ last'.kept
          /\ store'.state = store.state
          /\ store'.state = handles'[last.h].final
          /\ handles'[last.h].final.val = handles[last.h].final.val]_vars

\* Witness of C25: an exec that committed nothing new (the store's state
\* stayed the identical array) on a handle that has committed once: the
\* second or a later exec in a row.
C25_Witness ==
  /\ last.op = "exec" /\ TheHandle.kind = "replace" /\ TheHandle.commits = 1
  /\ last.kept /\ last.ret /\ store.state = TheHandle.final
  /\ store.state.val = <<1, 1>>

\* C26 as stated: under branch = false every exec runs the procedure once
\* more from the real store's state of that moment: an exec that follows
\* the dispatch of a procedure that dispatched and changed the elements
\* (or follows another exec of that handle), with no other call in
\* between, returns true and changes the elements of the real store again.
C26_Original ==
  [][(/\ last.op \in {"dispatch", "exec"} /\ last'.op = "exec"
      /\ last'.h = last.h
      /\ ~handles[last.h].obs.branch
      /\ handles[last.h].obs.n >= 1 /\ ~handles[last.h].obs.deep)
       => last'.ret /\ ~last'.deepKept]_vars

C28_StaleOverwrite ==
  [][/\ (last'.op = "exec" /\ handles[last'.h].kind = "replace")
          => /\ last'.ret /\ store'.calls = 1
             /\ store'.state.val = handles[last'.h].final.val
             /\ last'.deepKept = (store.state.val = handles[last'.h].final.val)
      /\ \A h \in Slots :
           (last'.op \in {"exec", "plain"} /\ handles[h].kind = "replace")
             => /\ handles'[h].kind = "replace"
                /\ handles'[h].final.val = handles[h].final.val]_vars

\* Witness of C28: a handle that holds [], the final state of popping the
\* one element the store had, has been executed for the second time after
\* the store had been changed again: what was there is gone.
C28_Witness ==
  /\ last.op = "exec" /\ TheHandle.kind = "replace" /\ TheHandle.commits = 2
  /\ TheHandle.obs.n = 1 /\ ~last.deepKept /\ last.ret
  /\ store.state.val = <<>> /\ store.state = TheHandle.final

\* C30 as stated: the dispatch of a plain action through the enhanced
\* store returns what the last stage of the chain returns, which for
\* redux's store.dispatch is the action: it does not return undefined.
C30_Original ==
  last.op = "plain" => ~last.undef

\* The procedures that raise an error.
Throwing ==
  {pushThrow(1, b, d) : b \in BOOLEAN, d \in BOOLEAN}
    \cup {throwInSub(1, b, d) : b \in BOOLEAN, d \in BOOLEAN}

\* C29: a call during which the procedure raised an error raised it to its
\* caller: it returned neither a handle nor true, and it left the real
\* store's state the array it was and called no subscriber.  The same
\* holds, in every state of the real store, for the closure of the
\* count-based strategy that runs the procedure again.
C29_ErrorsPropagate ==
  /\ last.raised => /\ last.op = "threw" /\ ~last.ret
                    /\ last.kept /\ store.calls = 0
  /\ last.op = "threw" => last.raised
  /\ \A sa \in Throwing :
       \A e \in {exec(Handle(TRUE, "rerun", NoState, <<sa>>, NoObs), TheWorld, 1)} :
         /\ e.w.err /\ ~e.ret
         /\ e.w.stores[1] = TheWorld.stores[1]

\* Witness of C29: a dispatch on a store that holds [1, 2] raised the
\* error of the procedure, and the store holds the same array.
C29_Witness ==
  /\ last.op = "threw" /\ last.raised /\ last.kept
  /\ store.state.val = <<1, 2>> /\ store.calls = 0

\* One instance dispatched twice to the real store, then the exec of the
\* first handle and the exec of the second: r1, r2 the two answers, e1, e2
\* the two execs, b1, b2 the stores the two evaluations made first (their
\* branches).
Twice(sa) ==
  LET r1 == smartActionMiddleware(Smart(sa), TheWorld, 1)
      r2 == smartActionMiddleware(Smart(sa), r1.w, 1)
      e1 == exec(r1.h, r2.w, 1)
      e2 == exec(r2.h, e1.w, 1)
  IN  [r1 |-> r1, r2 |-> r2, e1 |-> e1, e2 |-> e2,
       b1 |-> 2, b2 |-> Len(r1.w.stores) + 1]

====
